---- MODULE Spec2Model ----
(***************************************************************************)
(* The two GET route handlers of the repository:                           *)
(*   "validating"  src/unnamed/part_000          (validates the token      *)
(*                                                with the userinfo call)  *)
(*   "plain"       src/app/api/videos/route.ts   (no validation call)      *)
(* One request is one behaviour: Init draws the request and the handler,   *)
(* every await of the handler is one action whose input is the upstream's  *)
(* reply, drawn from the reply sets below.                                 *)
(***************************************************************************)
EXTENDS Integers, Sequences, FiniteSets, TLC

VARIABLES
    handler,        \* which of the two GET functions serves the request
    request,        \* the query parameters of the request URL
    pc,             \* the await the handler is suspended at
    clock,          \* the wall clock new Date() reads, seconds after 2024-01-01T00:00:00Z
    calls,          \* every fetch() issued so far, in order
    inflight,       \* the fetch() calls not yet settled
    channelIds,     \* const channelIds
    subscriptionItems, \* subscriptionsData.items as received
    idx,            \* position of the for...of loop in channelIds (1-based)
    allVideos,      \* const allVideos, in the order pushed
    sanitizedVideos, \* const sanitizedVideos of the last loop iteration
    lastSettled,    \* the fetch() call that settled last
    lastReply,      \* the reply it settled with
    responses       \* the responses the handler returned

vars == <<handler, request, pc, clock, calls, inflight, channelIds,
          subscriptionItems, idx, allVideos, sanitizedVideos, lastSettled,
          lastReply, responses>>

-----------------------------------------------------------------------------
(* Bounds and program constants *)

\* longest subscription list the upstream returns in the model
MaxSubs == 3

\* .slice(0, 10)
MaxVideos == 10

\* the clock when the request arrives
Clock0 == 3

-----------------------------------------------------------------------------
(* JavaScript values *)

\* an object with no properties
Empty == [f \in {} |-> ""]

\* obj.f is present (optional chaining yields undefined otherwise)
Has(obj, f) == f \in DOMAIN obj

RECURSIVE Chain(_, _, _)
\* obj?.p1?.p2 ... || default, for a path whose leaf is a string: the default
\* when a property on the path is absent or the leaf is the empty string
Chain(obj, path, default) ==
    IF ~Has(obj, Head(path)) THEN default
    ELSE IF Len(path) = 1
         THEN (IF obj[Head(path)] = "" THEN default ELSE obj[Head(path)])
         ELSE Chain(obj[Head(path)], Tail(path), default)

Range(s) == {s[i] : i \in DOMAIN s}

Min(a, b) == IF a < b THEN a ELSE b

\* Array.prototype.slice(0, n)
Slice(s, n) == SubSeq(s, 1, Min(n, Len(s)))

-----------------------------------------------------------------------------
(* Dates.  Instants are whole seconds after 2024-01-01T00:00:00Z; getTime()  *)
(* is 1704067200000 + 1000 * seconds, so differences keep their sign.       *)

Seconds == 0..59

TwoDigits(n) == IF n < 10 THEN "0" \o ToString(n) ELSE ToString(n)

\* Date.prototype.toISOString(): always the millisecond form
ToISOString(t) == "2024-01-01T00:00:" \o TwoDigits(t) \o ".000Z"

\* the same instant as upstream writes it, without milliseconds
IsoNoMillis(t) == "2024-01-01T00:00:" \o TwoDigits(t) \o "Z"

\* the texts Date parses, each with its instant
DateTable ==
    [text \in {ToISOString(t) : t \in Seconds} \cup {IsoNoMillis(t) : t \in Seconds} |->
        CHOOSE t \in Seconds : text \in {ToISOString(t), IsoNoMillis(t)}]

\* new Date(text).getTime(): a number, or NaN for a text that is no date
DateGetTime(text) ==
    IF text \in DOMAIN DateTable
    THEN [nan |-> FALSE, value |-> DateTable[text]]
    ELSE [nan |-> TRUE, value |-> 0]

-----------------------------------------------------------------------------
(* Response headers *)

NoCacheHeaders ==
    { <<"Cache-Control", "no-store, no-cache, must-revalidate, proxy-revalidate">>,
      <<"Pragma", "no-cache">>,
      <<"Expires", "0">> }

NoHeaders == {}

-----------------------------------------------------------------------------
(* Video Sanitizer: part_000 lines 121-128, route.ts lines 85-92 *)

\* the object literal the map callback builds from one raw item
SanitizeVideo(item, now) ==
    [id |-> [videoId |-> Chain(item, <<"id", "videoId">>, "")],
     snippet |->
        [title |-> Chain(item, <<"snippet", "title">>, ""),
         thumbnails |->
            [medium |-> [url |-> Chain(item, <<"snippet", "thumbnails", "medium", "url">>, "")]],
         publishedAt |-> Chain(item, <<"snippet", "publishedAt">>, ToISOString(now))]]

\* a filter callback that forgets the thumbnail
IsCompleteIdOnly(video) == video.id.videoId # ""

\* the filter callback: video.id.videoId && video.snippet.thumbnails.medium.url
IsComplete(video) ==
    video.id.videoId # "" /\ video.snippet.thumbnails.medium.url # ""

\* data.items?.map(...).filter(...) || []
SanitizeItems(data, now) ==
    IF Has(data, "items")
    THEN SelectSeq([i \in DOMAIN data.items |-> SanitizeVideo(data.items[i], now)], IsComplete)
    ELSE <<>>

-----------------------------------------------------------------------------
(* Channel identifiers: part_000 lines 100-102, route.ts lines 64-66 *)

\* a channel identifier Boolean() keeps: undefined and "" are the falsy ones
IsTruthyId(id) == id # ""

\* the map without the filter(Boolean)
ChannelIdsUnfiltered(items) ==
    [i \in DOMAIN items |-> Chain(items[i], <<"snippet", "resourceId", "channelId">>, "")]

\* subscriptionsData.items.map(sub => sub.snippet?.resourceId?.channelId).filter(Boolean)
\* (an absent identifier is mapped to "" here, which the filter drops like undefined)
ChannelIdsOf(items) ==
    SelectSeq([i \in DOMAIN items |-> Chain(items[i], <<"snippet", "resourceId", "channelId">>, "")],
              IsTruthyId)

-----------------------------------------------------------------------------
(* Aggregator/Sorter: part_000 lines 134-136, route.ts lines 98-100 *)

\* (a, b) => new Date(b.snippet.publishedAt).getTime() - new Date(a.snippet.publishedAt).getTime()
\* a subtraction with a NaN operand is NaN
CompareFn(a, b) ==
    LET ta == DateGetTime(a.snippet.publishedAt)
        tb == DateGetTime(b.snippet.publishedAt)
    IN  IF ta.nan \/ tb.nan
        THEN [nan |-> TRUE, value |-> 0]
        ELSE [nan |-> FALSE, value |-> tb.value - ta.value]

\* ECMAScript SortCompare with a comparefn: a NaN result counts as +0
SortCompare(a, b) ==
    LET v == CompareFn(a, b) IN IF v.nan THEN 0 ELSE v.value

Reverse(s) == [i \in 1..Len(s) |-> s[Len(s) + 1 - i]]

RECURSIVE RunEnd(_, _, _)
\* the last index of the run that starts at 1, scanning from index i on
RunEnd(a, i, isDescending) ==
    IF i > Len(a) THEN Len(a)
    ELSE LET order == SortCompare(a[i], a[i - 1])
         IN  IF (isDescending /\ order >= 0) \/ (~isDescending /\ order < 0)
             THEN i - 1
             ELSE RunEnd(a, i + 1, isDescending)

\* the initial run of an array of two or more elements, reversed in place when
\* it is strictly descending
CountAndMakeRun(a) ==
    LET isDescending == SortCompare(a[2], a[1]) < 0
        runLength == RunEnd(a, 3, isDescending)
    IN  [array |-> IF isDescending
                   THEN Reverse(SubSeq(a, 1, runLength)) \o SubSeq(a, runLength + 1, Len(a))
                   ELSE a,
         runLength |-> runLength]

RECURSIVE BinarySearch(_, _, _, _)
\* where pivot goes among a[left .. right-1]: after every element it does not
\* sort strictly before
BinarySearch(a, pivot, left, right) ==
    IF left >= right THEN left
    ELSE LET mid == left + ((right - left) \div 2)
         IN  IF SortCompare(pivot, a[mid]) < 0
             THEN BinarySearch(a, pivot, left, mid)
             ELSE BinarySearch(a, pivot, mid + 1, right)

RECURSIVE BinaryInsertionSort(_, _)
\* a[1 .. start-1] is sorted; insert a[start], a[start+1], ... one by one
BinaryInsertionSort(a, start) ==
    IF start > Len(a) THEN a
    ELSE LET pivot == a[start]
             pos == BinarySearch(a, pivot, 1, start)
             moved == SubSeq(a, 1, pos - 1) \o <<pivot>> \o SubSeq(a, pos, start - 1)
                        \o SubSeq(a, start + 1, Len(a))
         IN  BinaryInsertionSort(moved, start + 1)

\* Array.prototype.sort(comparefn) as Node's engine runs it on an array of fewer
\* than 64 elements: one counted run, the rest binary-inserted.  With a
\* consistent comparefn this is the stable sort ECMAScript requires; with an
\* inconsistent one ECMAScript leaves the order to the implementation.
ArraySort(a) ==
    IF Len(a) < 2 THEN a
    ELSE LET run == CountAndMakeRun(a)
         IN  BinaryInsertionSort(run.array, run.runLength + 1)

\* allVideos.sort(...).slice(0, 10)
SortAndLimit(videos) == Slice(ArraySort(videos), MaxVideos)

-----------------------------------------------------------------------------
(* What the upstream can answer *)

\* fetch() rejects: no HTTP reply at all
Rejected == [kind |-> "reject", message |-> "fetch failed"]

\* an HTTP reply whose body response.json() cannot parse
BadJson(status) ==
    [kind |-> "http", status |-> status, parses |-> FALSE,
     message |-> "Unexpected token < in JSON at position 0"]

\* an HTTP reply with a JSON body
Json(status, data) ==
    [kind |-> "http", status |-> status, parses |-> TRUE, data |-> data]

\* Response.ok
Ok(reply) == reply.status \in 200..299

\* the await of fetch() or of response.json() throws
Throws(reply) == IF reply.kind = "reject" THEN TRUE ELSE ~reply.parses

UserInfoReplies ==
    { Rejected,
      [kind |-> "http", status |-> 200],
      [kind |-> "http", status |-> 401],
      [kind |-> "http", status |-> 403] }

\* error objects of the upstream's error payload
UpstreamErrors ==
    { [code |-> 403, message |-> "The request cannot be completed because you have exceeded your quota."],
      [code |-> 401, message |-> "Invalid Credentials"],
      [code |-> 503, message |-> "Backend Error"],
      [code |-> 0, message |-> ""],
      [message |-> "Forbidden"],
      [code |-> 404],
      Empty }

Subscription(channelId) ==
    [snippet |-> [resourceId |-> [channelId |-> channelId], title |-> "Channel " \o channelId]]

SubscriptionRecords ==
    { Subscription("UCa"),
      Subscription("UCb"),
      Subscription(""),
      [snippet |-> [title |-> "Deleted channel"]],
      Empty }

SeqsUpTo(S, n) == UNION { [1..k -> S] : k \in 0..n }

SubscriptionsReplies ==
    { Rejected, BadJson(502), Json(200, Empty) }
    \cup { Json(403, [error |-> e]) : e \in UpstreamErrors }
    \cup { Json(403, [error |-> [code |-> 403, message |-> "Forbidden"], items |-> items]) :
              items \in { <<>>, <<Subscription("UCa")>> } }
    \cup { Json(200, [items |-> items]) : items \in SeqsUpTo(SubscriptionRecords, MaxSubs) }

RawVideo(videoId, title, url, publishedAt) ==
    [id |-> [videoId |-> videoId],
     snippet |-> [title |-> title,
                  thumbnails |-> [medium |-> [url |-> url]],
                  publishedAt |-> publishedAt]]

Thumb(videoId) == "https://i.ytimg.com/vi/" \o videoId \o "/mqdefault.jpg"

\* the n-th video of a channel, published at second t
FullVideo(c, n, t) ==
    RawVideo(c \o "-" \o ToString(n), "Video " \o ToString(n), Thumb(c \o "-" \o ToString(n)),
             IsoNoMillis(t))

\* five complete records, newest first, as order=date&maxResults=5 returns them
RecentItems(c) ==
    << FullVideo(c, 1, 20), FullVideo(c, 2, 18), FullVideo(c, 3, 16),
       FullVideo(c, 4, 14), FullVideo(c, 5, 12) >>

\* records whose video identifier is absent or empty, between two complete ones
IdDefectItems(c) ==
    << FullVideo(c, 6, 11),
       [snippet |-> FullVideo(c, 7, 10).snippet],
       [id |-> Empty, snippet |-> FullVideo(c, 8, 10).snippet],
       RawVideo("", "Video 9", Thumb(c \o "-9"), IsoNoMillis(10)),
       FullVideo(c, 10, 9) >>

\* records whose medium thumbnail URL is absent or empty
ThumbDefectItems(c) ==
    << [id |-> [videoId |-> c \o "-11"]],
       [id |-> [videoId |-> c \o "-12"], snippet |-> [title |-> "Video 12"]],
       [id |-> [videoId |-> c \o "-13"],
        snippet |-> [title |-> "Video 13", thumbnails |-> Empty, publishedAt |-> IsoNoMillis(8)]],
       [id |-> [videoId |-> c \o "-14"],
        snippet |-> [title |-> "Video 14", thumbnails |-> [medium |-> Empty]]],
       RawVideo(c \o "-15", "Video 15", "", IsoNoMillis(8)) >>

\* records whose title or publish timestamp is absent or empty, and one that
\* writes the instant of another with milliseconds
DefaultedItems(c) ==
    << [id |-> [videoId |-> c \o "-16"],
        snippet |-> [thumbnails |-> [medium |-> [url |-> Thumb(c \o "-16")]],
                     publishedAt |-> IsoNoMillis(13)]],
       RawVideo(c \o "-17", "", Thumb(c \o "-17"), IsoNoMillis(15)),
       [id |-> [videoId |-> c \o "-18"],
        snippet |-> [title |-> "Video 18",
                     thumbnails |-> [medium |-> [url |-> Thumb(c \o "-18")]]]],
       RawVideo(c \o "-19", "Video 19", Thumb(c \o "-19"), ""),
       RawVideo(c \o "-20", "Video 20", Thumb(c \o "-20"), ToISOString(13)) >>

\* a record whose publish timestamp is a text no Date can parse
UnparseableItems(c) ==
    << FullVideo(c, 21, 1),
       RawVideo(c \o "-22", "Video 22", Thumb(c \o "-22"), "yesterday"),
       FullVideo(c, 23, 30) >>

SearchError == [code |-> 403, message |-> "quotaExceeded"]

\* the replies to the search call for channel c
SearchReplies(c) ==
    { Rejected,
      BadJson(500),
      Json(500, [message |-> "Internal error encountered."]),
      Json(500, [items |-> RecentItems(c)]),
      Json(403, [error |-> SearchError]),
      Json(200, [error |-> SearchError, items |-> RecentItems(c)]),
      Json(200, [kind |-> "youtube#searchListResponse"]),
      Json(200, [items |-> <<>>]),
      Json(200, [items |-> RecentItems(c)]),
      Json(200, [items |-> IdDefectItems(c)]),
      Json(200, [items |-> ThumbDefectItems(c)]),
      Json(200, [items |-> DefaultedItems(c)]),
      Json(200, [items |-> UnparseableItems(c)]) }

-----------------------------------------------------------------------------
(* fetch() calls *)

UserInfoCall(token) == [endpoint |-> "userinfo", channelId |-> "", bearer |-> token]

SubscriptionsCall(token) == [endpoint |-> "subscriptions", channelId |-> "", bearer |-> token]

\* authenticated by the key in the URL, not by the user's token
SearchCall(c) == [endpoint |-> "search", channelId |-> c, bearer |-> ""]

-----------------------------------------------------------------------------
(* Responses, one per return statement *)

\* the headers a return statement of handler h passes, where part_000 passes them
HeadersOf(h) == IF h = "validating" THEN NoCacheHeaders ELSE NoHeaders

\* part_000 lines 45-52, route.ts line 34
MissingTokenResponse(h) ==
    [status |-> 401, body |-> [error |-> "Access token required"], headers |-> HeadersOf(h)]

\* part_000 lines 64-71
InvalidTokenResponse ==
    [status |-> 401, body |-> [error |-> "Invalid or expired access token"],
     headers |-> NoCacheHeaders]

\* a status that ignores the upstream's code
UpstreamErrorStatusFixed(error) == 400

\* subscriptionsData.error.code || 400
UpstreamErrorStatus(error) ==
    IF Has(error, "code") /\ error.code # 0 THEN error.code ELSE 400

\* subscriptionsData.error.message || "YouTube API Error"
UpstreamErrorMessage(error) ==
    IF Has(error, "message") /\ error.message # "" THEN error.message ELSE "YouTube API Error"

\* part_000 lines 90-93, route.ts lines 54-57: no headers passed
UpstreamErrorResponse(error) ==
    [status |-> UpstreamErrorStatus(error),
     body |-> [error |-> UpstreamErrorMessage(error), details |-> error],
     headers |-> NoHeaders]

\* part_000 line 97, route.ts line 61: no headers passed
NoSubscriptionsResponse ==
    [status |-> 404, body |-> [error |-> "No subscriptions found"], headers |-> NoHeaders]

\* part_000 lines 138-147, route.ts lines 102-105
SuccessResponse(h, sortedVideos, ids) ==
    [status |-> 200,
     body |-> [items |-> sortedVideos, subscriptionCount |-> Len(ids)],
     headers |-> HeadersOf(h)]

\* the catch block: part_000 lines 150-160, route.ts lines 108-111
InternalErrorResponse(h, message) ==
    [status |-> 500,
     body |-> [error |-> "Internal server error", details |-> message],
     headers |-> HeadersOf(h)]

-----------------------------------------------------------------------------
(* The request *)

Requests ==
    { Empty,
      [access_token |-> ""],
      [access_token |-> "ya29.a0AfB_byC"] }

\* a token test that lets the empty string through
TokenAbsent(req) == ~Has(req, "access_token")

\* !accessToken, for searchParams.get("access_token"): null when the parameter
\* is absent, the empty string when it is empty
TokenMissing(req) == IF Has(req, "access_token") THEN req.access_token = "" ELSE TRUE

NoReply == [kind |-> "none"]

NoCall == [endpoint |-> "none", channelId |-> "", bearer |-> ""]

Init ==
    /\ handler \in {"validating", "plain"}
    /\ request \in Requests
    /\ pc = "start"
    /\ clock = Clock0
    /\ calls = <<>>
    /\ inflight = {}
    /\ channelIds = <<>>
    /\ subscriptionItems = <<>>
    /\ idx = 0
    /\ allVideos = <<>>
    /\ sanitizedVideos = <<>>
    /\ lastSettled = NoCall
    /\ lastReply = NoReply
    /\ responses = <<>>

\* fetch(...) is called and the handler suspends at its await
Issue(call, at) ==
    /\ calls' = Append(calls, call)
    /\ inflight' = inflight \cup {call}
    /\ pc' = at

\* the awaited call settles with reply; time has passed meanwhile
Settle(call, reply) ==
    /\ call \in inflight
    /\ lastSettled' = call
    /\ lastReply' = reply
    /\ clock' = clock + 1

\* return NextResponse.json(...)
Return(response) ==
    /\ responses' = Append(responses, response)
    /\ pc' = "done"

-----------------------------------------------------------------------------
(* The steps of GET *)

\* if (!accessToken) return 401
GetWithoutToken ==
    /\ pc = "start"
    /\ TokenMissing(request)
    /\ Return(MissingTokenResponse(handler))
    /\ UNCHANGED <<handler, request, clock, calls, inflight, channelIds,
                   subscriptionItems, idx, allVideos, sanitizedVideos, lastSettled, lastReply>>

\* part_000: the token is present, the userinfo call is issued
GetValidatesToken ==
    /\ pc = "start"
    /\ handler = "validating"
    /\ ~TokenMissing(request)
    /\ Issue(UserInfoCall(request.access_token), "userinfo")
    /\ UNCHANGED <<handler, request, clock, channelIds, subscriptionItems, idx,
                   allVideos, sanitizedVideos, lastSettled, lastReply, responses>>

\* route.ts: the token is present, the subscriptions call is issued at once
GetFetchesSubscriptions ==
    /\ pc = "start"
    /\ handler = "plain"
    /\ ~TokenMissing(request)
    /\ Issue(SubscriptionsCall(request.access_token), "subscriptions")
    /\ UNCHANGED <<handler, request, clock, channelIds, subscriptionItems, idx,
                   allVideos, sanitizedVideos, lastSettled, lastReply, responses>>

\* a validation that turns away only the status 401
TokenAcceptedUnless401(reply) == reply.status # 401

\* whether the handler goes on to the subscriptions call after this userinfo reply
TokenAccepted(reply) == Ok(reply)

\* part_000 lines 57-85: the userinfo call settles
UserInfoSettles ==
    /\ pc = "userinfo"
    /\ \E reply \in UserInfoReplies :
        /\ Settle(UserInfoCall(request.access_token), reply)
        /\ IF reply.kind = "reject"
           THEN /\ Return(InternalErrorResponse(handler, reply.message))
                /\ inflight' = inflight \ {UserInfoCall(request.access_token)}
                /\ UNCHANGED calls
           ELSE IF ~TokenAccepted(reply)
           THEN /\ Return(InvalidTokenResponse)
                /\ inflight' = inflight \ {UserInfoCall(request.access_token)}
                /\ UNCHANGED calls
           ELSE /\ calls' = Append(calls, SubscriptionsCall(request.access_token))
                /\ inflight' = (inflight \ {UserInfoCall(request.access_token)})
                                 \cup {SubscriptionsCall(request.access_token)}
                /\ pc' = "subscriptions"
                /\ UNCHANGED responses
    /\ UNCHANGED <<handler, request, channelIds, subscriptionItems, idx, allVideos,
                   sanitizedVideos>>

\* subscriptionsData.error is truthy: an error object is present
HasErrorPayload(data) == Has(data, "error")

\* an emptiness test that forgets the length
NoSubscriptionsAbsentOnly(data) == ~Has(data, "items")

\* !subscriptionsData.items || subscriptionsData.items.length === 0
NoSubscriptions(data) == IF Has(data, "items") THEN Len(data.items) = 0 ELSE TRUE

\* part_000 lines 87-113, route.ts lines 51-77: the subscriptions call settles;
\* on a non-empty list the loop starts and suspends at its first search call
SubscriptionsSettle ==
    /\ pc = "subscriptions"
    /\ \E reply \in SubscriptionsReplies :
        /\ Settle(SubscriptionsCall(request.access_token), reply)
        /\ IF Throws(reply)
           THEN /\ Return(InternalErrorResponse(handler, reply.message))
                /\ inflight' = {}
                /\ UNCHANGED <<calls, channelIds, subscriptionItems, idx>>
           ELSE IF HasErrorPayload(reply.data)
           THEN /\ Return(UpstreamErrorResponse(reply.data.error))
                /\ inflight' = {}
                /\ UNCHANGED <<calls, channelIds, subscriptionItems, idx>>
           ELSE IF NoSubscriptions(reply.data)
           THEN /\ Return(NoSubscriptionsResponse)
                /\ inflight' = {}
                /\ UNCHANGED <<calls, channelIds, subscriptionItems, idx>>
           ELSE LET ids == ChannelIdsOf(reply.data.items)
                IN  /\ channelIds' = ids
                    /\ subscriptionItems' = reply.data.items
                    /\ IF ids = <<>>
                       THEN /\ Return(SuccessResponse(handler, SortAndLimit(<<>>), ids))
                            /\ inflight' = {}
                            /\ UNCHANGED <<calls, idx>>
                       ELSE /\ calls' = Append(calls, SearchCall(ids[1]))
                            /\ inflight' = {SearchCall(ids[1])}
                            /\ idx' = 1
                            /\ pc' = "search"
                            /\ UNCHANGED responses
    /\ UNCHANGED <<handler, request, allVideos, sanitizedVideos>>

\* !response.ok || data.error
SkipsChannel(reply) == ~Ok(reply) \/ HasErrorPayload(reply.data)

\* part_000 lines 111-147, route.ts lines 75-105: the search call of the current
\* channel settles; the loop goes on to the next channel's call, or ends and the
\* handler sorts, limits and returns
SearchSettles ==
    /\ pc = "search"
    /\ \E reply \in SearchReplies(channelIds[idx]) :
        /\ Settle(SearchCall(channelIds[idx]), reply)
        /\ IF Throws(reply)
           THEN /\ Return(InternalErrorResponse(handler, reply.message))
                /\ inflight' = {}
                /\ UNCHANGED <<calls, idx, allVideos, sanitizedVideos>>
           ELSE LET batch == IF SkipsChannel(reply) THEN <<>>
                             ELSE SanitizeItems(reply.data, clock)
                    videos == allVideos \o batch
                IN  /\ sanitizedVideos' = batch
                    /\ allVideos' = videos
                    /\ idx' = idx + 1
                    /\ IF idx < Len(channelIds)
                       THEN /\ calls' = Append(calls, SearchCall(channelIds[idx + 1]))
                            /\ inflight' = {SearchCall(channelIds[idx + 1])}
                            /\ UNCHANGED <<pc, responses>>
                       ELSE /\ Return(SuccessResponse(handler, SortAndLimit(videos), channelIds))
                            /\ inflight' = {}
                            /\ UNCHANGED calls
    /\ UNCHANGED <<handler, request, channelIds, subscriptionItems>>

Next ==
    \/ GetWithoutToken
    \/ GetValidatesToken
    \/ GetFetchesSubscriptions
    \/ UserInfoSettles
    \/ SubscriptionsSettle
    \/ SearchSettles

Spec == Init /\ [][Next]_vars

-----------------------------------------------------------------------------
(* Vocabulary of the properties *)

Done == pc = "done"

\* the response of the request, once it is done
Response == responses[1]

Returned(status) == Done /\ Response.status = status

\* the calls issued to one endpoint, in order
CallsTo(endpoint) == SelectSeq(calls, LAMBDA c : c.endpoint = endpoint)

SearchedChannels == [i \in DOMAIN CallsTo("search") |-> CallsTo("search")[i].channelId]

\* the step just taken consumed a parsed JSON reply to a call of this endpoint
JustParsed(endpoint) ==
    /\ lastSettled.endpoint = endpoint
    /\ lastReply.kind = "http"
    /\ Has(lastReply, "parses")
    /\ lastReply.parses

IsPrefix(s, t) == Len(s) <= Len(t) /\ SubSeq(t, 1, Len(s)) = s

-----------------------------------------------------------------------------
(* C1 *)

\* the search call of some channel has thrown: fetch() rejected or the body did not parse
SearchThrew ==
    /\ lastSettled.endpoint = "search"
    /\ IF lastReply.kind = "reject" THEN TRUE ELSE ~lastReply.parses

\* the search call of some channel was answered, with a non-success status or
\* with an error payload
SearchRefused ==
    /\ JustParsed("search")
    /\ (lastReply.status \notin 200..299 \/ Has(lastReply.data, "error"))

\* C1: in the token-validating handler, once the channel list is non-empty,
\* whatever each channel's search call does (throws, non-success status, error
\* payload, success), a failing channel adds no video, the loop goes on, and
\* the request ends with status 200 whose items are videos collected from the
\* channels that succeeded.
C1_PartialFailureTolerance ==
    handler = "validating" =>
        /\ SearchRefused => sanitizedVideos = <<>>
        /\ (SearchRefused \/ SearchThrew) => (Done => Response.status = 200)
        /\ (Done /\ channelIds # <<>>)
              => /\ Response.status = 200
                 /\ Range(Response.body.items) \subseteq Range(allVideos)

-----------------------------------------------------------------------------
(* C2 *)

\* C2: every response of the token-validating handler carries the three
\* cache-disabling headers.
C2_NoCacheHeadersOnEveryResponse ==
    (handler = "validating" /\ Done) => NoCacheHeaders \subseteq Response.headers

-----------------------------------------------------------------------------
(* C3 *)

\* the userinfo call was answered with a non-success status
UserInfoRefused ==
    /\ lastSettled.endpoint = "userinfo"
    /\ lastReply.kind = "http"
    /\ lastReply.status \notin 200..299

\* C3: in the token-validating handler, when the userinfo endpoint answers with
\* a non-success status the request ends at once with 401 "Invalid or expired
\* access token", and the userinfo call is the only upstream call of the run.
C3_InvalidTokenStopsTheRun ==
    (handler = "validating" /\ UserInfoRefused)
        => /\ Done
           /\ Response.status = 401
           /\ Response.body = [error |-> "Invalid or expired access token"]
           /\ Len(calls) = 1
           /\ calls[1].endpoint = "userinfo"
           /\ inflight = {}

C3_Witness ==
    /\ handler = "validating"
    /\ UserInfoRefused
    /\ lastReply.status = 403
    /\ Returned(401)

-----------------------------------------------------------------------------
(* C4 *)

ParsedAt(video) == DateGetTime(video.snippet.publishedAt)

\* both timestamps parse and a is strictly earlier than b
StrictlyEarlier(a, b) ==
    /\ ~ParsedAt(a).nan
    /\ ~ParsedAt(b).nan
    /\ ParsedAt(a).value < ParsedAt(b).value

\* C4: in every 200 response, items is the 10 most recent of the collected
\* videos: no item is followed by a strictly later one, there are min(10, n)
\* items, each is a collected video, and no collected video left out is
\* strictly later than an item kept.
C4_ItemsAreTheTenMostRecent ==
    Returned(200) =>
        LET items == Response.body.items
        IN  /\ \A i, j \in DOMAIN items : i < j => ~StrictlyEarlier(items[i], items[j])
            /\ Len(items) = Min(MaxVideos, Len(allVideos))
            /\ Range(items) \subseteq Range(allVideos)
            /\ \A v \in Range(allVideos) \ Range(items) :
                  \A i \in DOMAIN items : ~StrictlyEarlier(items[i], v)

-----------------------------------------------------------------------------
(* C5 *)

\* the raw record's video identifier, "" when absent
RawVideoId(item) ==
    IF Has(item, "id") THEN (IF Has(item.id, "videoId") THEN item.id.videoId ELSE "") ELSE ""

\* a property of the raw record's snippet, "" when absent
RawSnippet(item, f) ==
    IF Has(item, "snippet") THEN (IF Has(item.snippet, f) THEN item.snippet[f] ELSE "") ELSE ""

\* the raw record's medium thumbnail URL, "" when absent
RawThumbUrl(item) ==
    IF ~Has(item, "snippet") THEN ""
    ELSE IF ~Has(item.snippet, "thumbnails") THEN ""
    ELSE IF ~Has(item.snippet.thumbnails, "medium") THEN ""
    ELSE IF ~Has(item.snippet.thumbnails.medium, "url") THEN ""
    ELSE item.snippet.thumbnails.medium.url

\* the raw records of the reply just consumed
RawItems == IF Has(lastReply.data, "items") THEN lastReply.data.items ELSE <<>>

\* the positions of the raw records that have both identifier and thumbnail
Survivors == {i \in DOMAIN RawItems : RawVideoId(RawItems[i]) # "" /\ RawThumbUrl(RawItems[i]) # ""}

\* the position among the survivors of raw record i
Rank(i) == Cardinality({j \in Survivors : j <= i})

\* C5: after a successful search reply the sanitized batch holds exactly the
\* raw records with a non-empty identifier and a non-empty medium thumbnail
\* URL, in upstream order, a missing title as "" and a missing timestamp as
\* the current time; and every item of a response has both fields non-empty.
C5_SanitizerKeepsExactlyTheComplete ==
    /\ (JustParsed("search") /\ ~SearchRefused) =>
          /\ Len(sanitizedVideos) = Cardinality(Survivors)
          /\ \A i \in Survivors :
                LET raw == RawItems[i]
                    video == sanitizedVideos[Rank(i)]
                IN  /\ video.id.videoId = RawVideoId(raw)
                    /\ video.snippet.thumbnails.medium.url = RawThumbUrl(raw)
                    /\ video.snippet.title = RawSnippet(raw, "title")
                    /\ video.snippet.publishedAt =
                          IF RawSnippet(raw, "publishedAt") = ""
                          THEN ToISOString(clock - 1)
                          ELSE RawSnippet(raw, "publishedAt")
    /\ Returned(200) =>
          \A i \in DOMAIN Response.body.items :
              /\ Response.body.items[i].id.videoId # ""
              /\ Response.body.items[i].snippet.thumbnails.medium.url # ""

\* a reply with dropped and kept records has been sanitized, an earlier one
\* had a missing title and a missing timestamp, and the response carries items
C5_Witness ==
    /\ Returned(200)
    /\ JustParsed("search")
    /\ ~SearchRefused
    /\ Len(RawItems) = 5
    /\ Len(sanitizedVideos) = 2
    /\ \E i \in DOMAIN allVideos : allVideos[i].snippet.title = ""
    /\ \E i \in DOMAIN allVideos : allVideos[i].snippet.publishedAt = ToISOString(clock - 2)
    /\ Len(Response.body.items) = 7

-----------------------------------------------------------------------------
(* C6 *)

\* the subscriptions reply carried no error payload and no subscription
EmptySubscriptionsReply ==
    /\ JustParsed("subscriptions")
    /\ ~Has(lastReply.data, "error")
    /\ (IF Has(lastReply.data, "items") THEN lastReply.data.items = <<>> ELSE TRUE)

\* C6: a subscriptions reply without error payload and without subscriptions
\* ends the request with 404 "No subscriptions found" and no search call; and
\* a 200 response, like every search call, comes only after the subscriptions
\* call returned at least one subscription.
C6_NoSubscriptionsIsNotFound ==
    /\ EmptySubscriptionsReply =>
          /\ Done
          /\ Response.status = 404
          /\ Response.body = [error |-> "No subscriptions found"]
          /\ CallsTo("search") = <<>>
    /\ (Returned(200) \/ CallsTo("search") # <<>>) => Len(subscriptionItems) >= 1

\* the upstream answered with an empty list, not an absent one
C6_Witness ==
    /\ EmptySubscriptionsReply
    /\ Has(lastReply.data, "items")
    /\ Returned(404)

-----------------------------------------------------------------------------
(* C7 *)

\* the subscriptions reply carried an error payload
ErrorSubscriptionsReply ==
    /\ JustParsed("subscriptions")
    /\ Has(lastReply.data, "error")

\* C7: a subscriptions reply with an error payload ends the request with the
\* upstream's code as status (400 when the code is absent or 0), the
\* upstream's message as error ("YouTube API Error" when absent or empty) and
\* the error object as details, without any search call, also when the reply
\* has no subscriptions.
C7_UpstreamErrorIsForwarded ==
    ErrorSubscriptionsReply =>
        LET error == lastReply.data.error
            code == IF Has(error, "code") THEN error.code ELSE 0
            message == IF Has(error, "message") THEN error.message ELSE ""
        IN  /\ Done
            /\ Response.status = (IF code = 0 THEN 400 ELSE code)
            /\ Response.body.error = (IF message = "" THEN "YouTube API Error" ELSE message)
            /\ Response.body.details = error
            /\ CallsTo("search") = <<>>

\* an error payload that comes with an empty subscription list: the error wins
C7_Witness ==
    /\ ErrorSubscriptionsReply
    /\ Has(lastReply.data, "items")
    /\ lastReply.data.items = <<>>
    /\ Returned(403)

-----------------------------------------------------------------------------
(* C8 *)

\* the subscription record's channel identifier, "" when absent
RawChannelId(sub) ==
    IF ~Has(sub, "snippet") THEN ""
    ELSE IF ~Has(sub.snippet, "resourceId") THEN ""
    ELSE IF ~Has(sub.snippet.resourceId, "channelId") THEN ""
    ELSE sub.snippet.resourceId.channelId

\* the positions of the subscription records that name a channel
Named == {i \in DOMAIN subscriptionItems : RawChannelId(subscriptionItems[i]) # ""}

\* C8: in every 200 response subscriptionCount is the number of subscription
\* records with a truthy channel identifier, these being the channels
\* searched, in order, skipped or not; it does not depend on the videos.
C8_SubscriptionCountCountsChannels ==
    Returned(200) =>
        /\ Response.body.subscriptionCount = Cardinality(Named)
        /\ Len(SearchedChannels) = Cardinality(Named)
        /\ \A i \in Named :
              SearchedChannels[Cardinality({j \in Named : j <= i})]
                  = RawChannelId(subscriptionItems[i])

\* a record without channel was dropped, the last channel was skipped, and the
\* count is neither the number of records nor the number of videos
C8_Witness ==
    /\ Returned(200)
    /\ SearchRefused
    /\ Cardinality(Named) = 2
    /\ Len(subscriptionItems) = 3
    /\ Len(Response.body.items) = 5

-----------------------------------------------------------------------------
(* C9 *)

\* the request has no access_token parameter, or an empty one
LacksToken == IF "access_token" \in DOMAIN request THEN request.access_token = "" ELSE TRUE

\* C9: a request without access token, or with an empty one, is answered by
\* either handler with 401 "Access token required", and no upstream call is
\* ever issued for it.
C9_MissingTokenIsRefusedAtOnce ==
    LacksToken =>
        /\ calls = <<>>
        /\ inflight = {}
        /\ pc \in {"start", "done"}
        /\ Done => /\ Response.status = 401
                   /\ Response.body = [error |-> "Access token required"]

\* the parameter is present and empty
C9_Witness ==
    /\ "access_token" \in DOMAIN request
    /\ LacksToken
    /\ Returned(401)

-----------------------------------------------------------------------------
(* C10 *)

\* C10: in the token-validating handler at most one call is outstanding; the
\* calls are userinfo, then subscriptions, then the searches, one per channel
\* identifier in list order whatever the previous search did; and the request
\* ends with exactly one response, with no call outstanding.
C10_CallsAreSequentialAndComplete ==
    handler = "validating" =>
        /\ Cardinality(inflight) <= 1
        /\ Len(responses) <= 1
        /\ calls # <<>> => calls[1].endpoint = "userinfo"
        /\ Len(calls) >= 2 => calls[2].endpoint = "subscriptions"
        /\ \A i \in DOMAIN calls : i >= 3 => calls[i].endpoint = "search"
        /\ IsPrefix(SearchedChannels, channelIds)
        /\ Done => /\ Len(responses) = 1
                   /\ inflight = {}
                   /\ JustParsed("subscriptions") \/ lastSettled.endpoint = "search"
                         => SearchedChannels = channelIds

====
